---- MODULE Spec2Model ----
(***************************************************************************)
(* Shannon-Fano coder (src/main.cpp): Coder::Encode, Coder::EncShannon and *)
(* Coder::Decode as a state machine.                                       *)
(*                                                                         *)
(* Characters are their ASCII codes.  A float is the integer number of     *)
(* units of 2^-30 it holds: every float in [2^-7, 2) is a whole number of  *)
(* such units, which covers count/total for total <= 128 and all the sums  *)
(* the code takes.  Arithmetic is IEEE single precision, one rounding      *)
(* (nearest, ties to even) per operation.                                  *)
(***************************************************************************)
EXTENDS Integers, Sequences, FiniteSets, TLC

\* ---------------------------------------------------------------- bounds
\* Number of distinct byte values the input may use ('a', 'b', ...).
NumSyms == 4
\* Longest input file of the specification Spec.
MaxLen == 5
\* Largest alphabet and largest per-symbol count of the input files of SpecRuns.
RunSyms == 8
MaxCount == 12
\* Live EncShannon calls after which the process has exhausted its stack.
MaxFrames == 10

\* ------------------------------------------------------------ characters
SymBase == 97
CharTab == 9
CharNL == 10
CharDot == 46
CharZero == 48
CharOne == 49

Symbols == SymBase .. (SymBase + NumSyms - 1)

\* ------------------------------------------------------- float arithmetic
MantBits == 23
\* The unit of the representation is 2^-(MantBits + 7).
FracBits == MantBits + 7

RECURSIVE Pow2(_)
Pow2(n) == IF n = 0 THEN 1 ELSE 2 * Pow2(n - 1)

\* Largest power of two that is <= x (x >= 1).
RECURSIVE FloorPow2(_)
FloorPow2(x) == IF x < 2 THEN 1 ELSE 2 * FloorPow2(x \div 2)

\* Spacing of the floats in the binade of x.
Ulp(x) ==
  LET b == FloorPow2(x)
  IN  IF x < Pow2(MantBits) THEN 1 ELSE b \div Pow2(MantBits)

\* Round lo + frac (0 <= num/den < u, in units) to a multiple of u, ties to even.
RoundTo(lo, u, num, den) ==
  IF 2 * num < u * den THEN lo
  ELSE IF 2 * num > u * den THEN lo + u
  ELSE IF (lo \div u) % 2 = 0 THEN lo ELSE lo + u

\* float + float
FAdd(a, b) ==
  LET x == a + b
      u == IF x = 0 THEN 1 ELSE Ulp(x)
  IN  RoundTo(x - (x % u), u, x % u, 1)

\* float(c) / float(t) for integers 0 <= c <= t, 1 <= t <= 128.
FDiv(c, t) ==
  LET n1 == c * Pow2(15)
      q1 == n1 \div t
      n2 == (n1 % t) * Pow2(FracBits - 15)
      q  == q1 * Pow2(FracBits - 15) + (n2 \div t)
      r  == n2 % t
      u  == IF q = 0 THEN 1 ELSE Ulp(q)
  IN  RoundTo(q - (q % u), u, (q % u) * t + r, t)

\* float * 0.5f (exact for the values the code halves)
FHalf(x) == x \div 2

\* ------------------------------------------------------------------ state
VARIABLES
  input,     \* contents of the file Encode reads: a sequence of bytes
  pc,        \* position of the run: start, counted, building, built, encoded,
             \* decoding, decoded, crashed
  freqs,     \* Encode: map<char,int> freqs
  total,     \* Encode: unsigned total
  tsize,     \* Coder::tsize
  ptable,    \* Coder::ptable, a sequence of pnode; ptable[i] of the code is ptable[i+1]
  codes,     \* Coder::codes, a function whose domain is the keys of the map
  stack,     \* live EncShannon calls, innermost last
  artifact,  \* contents of the file Encode writes and Decode reads
  rpos,      \* Decode: number of characters of the artifact already read
  accum,     \* Decode: string accum
  output     \* contents of the file Decode writes

vars == <<input, pc, freqs, total, tsize, ptable, codes, stack, artifact, rpos, accum, output>>

\* ----------------------------------------------------------- std::map helpers
EmptyMap == [c \in {} |-> 0]

\* m[k] read through operator[]: a missing key reads as the default value.
MapGet(m, k, dflt) == IF k \in DOMAIN m THEN m[k] ELSE dflt

\* m[k] = v
MapPut(m, k, v) == [c \in (DOMAIN m) \cup {k} |-> IF c = k THEN v ELSE m[c]]

\* codes[ch] += bit
AppendBit(cds, ch, bit) == MapPut(cds, ch, Append(MapGet(cds, ch, <<>>), bit))

\* The keys of a map in increasing order, as map iteration visits them.
RECURSIVE KeysAscending(_)
KeysAscending(ks) ==
  IF ks = {} THEN <<>>
  ELSE LET k == CHOOSE x \in ks : \A y \in ks : x <= y
       IN  <<k>> \o KeysAscending(ks \ {k})

\* ------------------------------------------------------------ Encode: counting
\* while( fscanf( inputFile, "%c", &ch ) != EOF ) { freqs[ch]++; total++; }
RECURSIVE CountChars(_, _)
CountChars(s, m) ==
  IF s = <<>> THEN m
  ELSE CountChars(Tail(s), MapPut(m, Head(s), MapGet(m, Head(s), 0) + 1))

Count ==
  /\ pc = "start"
  /\ freqs' = CountChars(input, EmptyMap)
  /\ total' = Len(input)
  /\ tsize' = Cardinality(DOMAIN CountChars(input, EmptyMap))
  /\ pc' = "counted"
  /\ UNCHANGED <<input, ptable, codes, stack, artifact, rpos, accum, output>>

\* ------------------------------------------------- Encode: probability table
pnode(c, prob) == [ch |-> c, p |-> prob]

\* for( fi=freqs.begin(),i=0; ... ) { ptable[i].ch = first; ptable[i].p = float(second) / ftot; }
RECURSIVE FillTable(_, _, _)
FillTable(keys, m, tot) ==
  IF keys = <<>> THEN <<>>
  ELSE <<pnode(Head(keys), FDiv(m[Head(keys)], tot))>> \o FillTable(Tail(keys), m, tot)

\* A comparison that sorts in increasing order of probability.
pnode_compare_increasing(a, b) == IF a.p < b.p THEN 0 - 1 ELSE IF a.p > b.p THEN 1 ELSE 0

\* pnode_compare(a, b) <= 0: a may stand before b in the sorted table.
pnode_compare(a, b) == IF a.p < b.p THEN 1 ELSE IF a.p > b.p THEN 0 - 1 ELSE 0

\* qsort( ptable, tsize, sizeof(pnode), pnode_compare ): every arrangement of the
\* nodes that the comparison accepts; qsort does not say which one it returns.
RECURSIVE qsort(_)
qsort(nodes) ==
  IF nodes = {} THEN {<<>>}
  ELSE UNION { { <<n>> \o rest : rest \in qsort(nodes \ {n}) } :
               n \in { x \in nodes : \A y \in nodes : pnode_compare(x, y) <= 0 } }

Range(s) == { s[i] : i \in 1 .. Len(s) }

BuildTable ==
  /\ pc = "counted"
  /\ \E sorted \in qsort(Range(FillTable(KeysAscending(DOMAIN freqs), freqs, total))) :
       ptable' = sorted
  /\ stack' = <<[li |-> 0, ri |-> tsize - 1, isp |-> 0 - 1, at |-> "entry"]>>
  /\ pc' = "building"
  /\ UNCHANGED <<input, freqs, total, tsize, codes, artifact, rpos, accum, output>>

\* ------------------------------------------------------------- EncShannon
\* for( i=li; i<=ri; ++i ) pfull += ptable[i].p;
RECURSIVE SumRange(_, _, _, _)
SumRange(pt, i, ri, pfull) ==
  IF i > ri THEN pfull ELSE SumRange(pt, i + 1, ri, FAdd(pfull, pt[i + 1].p))

\* A search loop that records every index it marks '1', not only the first.
RecordSplitLast(isp, i) == i

\* The isp an iteration of the search loop leaves: if( isp < 0 ) isp = i;
RecordSplit(isp, i) == IF isp < 0 THEN i ELSE isp

\* The search loop of lines 217-228 from index i on, with running sum p.
RECURSIVE SearchCenter(_, _, _, _, _, _, _)
SearchCenter(pt, i, ri, p, phalf, cds, isp) ==
  IF i > ri THEN [codes |-> cds, isp |-> isp]
  ELSE LET q == FAdd(p, pt[i + 1].p)
       IN  IF q <= phalf
           THEN SearchCenter(pt, i + 1, ri, q, phalf, AppendBit(cds, pt[i + 1].ch, CharZero), isp)
           ELSE SearchCenter(pt, i + 1, ri, q, phalf, AppendBit(cds, pt[i + 1].ch, CharOne),
                             RecordSplit(isp, i))

\* The general case up to the recursive calls: the codes and the split position.
FallbackSplit(li) == li + 1

GeneralCase(pt, li, ri, cds) ==
  LET pfull == SumRange(pt, li, ri, 0)
      found == SearchCenter(pt, li, ri, 0, FHalf(pfull), cds, 0 - 1)
  IN  [codes |-> found.codes,
       isp |-> IF found.isp < 0 THEN FallbackSplit(li) ELSE found.isp]

\* A two-element case that gives both elements the bit '0'.
TwoElementsSameBit(pt, li, ri, cds) ==
  AppendBit(AppendBit(cds, pt[li + 1].ch, CharZero), pt[ri + 1].ch, CharZero)

\* A two-element case that returns like the one-element case, without a bit.
TwoElementsSkipped(pt, li, ri, cds) == cds

\* codes[ptable[li].ch] += '0'; codes[ptable[ri].ch] += '1';
TwoElements(pt, li, ri, cds) ==
  AppendBit(AppendBit(cds, pt[li + 1].ch, CharZero), pt[ri + 1].ch, CharOne)

Top == stack[Len(stack)]
Pop == SubSeq(stack, 1, Len(stack) - 1)
Frame(l, r) == [li |-> l, ri |-> r, isp |-> 0 - 1, at |-> "entry"]
SetTop(f) == [stack EXCEPT ![Len(stack)] = f]

\* A call returns to its caller, or to Encode when it is the outermost one.
Return ==
  /\ stack' = Pop
  /\ pc' = IF Len(stack) = 1 THEN "built" ELSE "building"

\* li == ri, or a range of two elements: no further call.
EncShannonBase ==
  /\ pc = "building"
  /\ Top.at = "entry"
  /\ \/ /\ Top.li = Top.ri
        /\ codes' = codes
     \/ /\ Top.ri - Top.li = 1
        /\ codes' = TwoElements(ptable, Top.li, Top.ri, codes)
  /\ Return
  /\ UNCHANGED <<input, freqs, total, tsize, ptable, artifact, rpos, accum, output>>

IsGeneral(f) == f.li # f.ri /\ f.ri - f.li # 1

\* The general case: the two loops, then EncShannon( li, isp-1 ).
EncShannonSplit ==
  /\ pc = "building"
  /\ Top.at = "entry"
  /\ IsGeneral(Top)
  /\ Len(stack) < MaxFrames
  /\ LET g == GeneralCase(ptable, Top.li, Top.ri, codes)
     IN  /\ codes' = g.codes
         /\ stack' = Append(SetTop([Top EXCEPT !.isp = g.isp, !.at = "first"]),
                            Frame(Top.li, g.isp - 1))
  /\ UNCHANGED <<input, pc, freqs, total, tsize, ptable, artifact, rpos, accum, output>>

\* The first recursive call has returned: EncShannon( isp, ri ).
EncShannonSecond ==
  /\ pc = "building"
  /\ Top.at = "first"
  /\ Len(stack) < MaxFrames
  /\ stack' = Append(SetTop([Top EXCEPT !.at = "second"]), Frame(Top.isp, Top.ri))
  /\ UNCHANGED <<input, pc, freqs, total, tsize, ptable, codes, artifact, rpos, accum, output>>

\* The second recursive call has returned: the general case returns.
EncShannonReturn ==
  /\ pc = "building"
  /\ Top.at = "second"
  /\ Return
  /\ UNCHANGED <<input, freqs, total, tsize, ptable, codes, artifact, rpos, accum, output>>

\* A call that needs one more frame than the stack holds ends the process.
StackExhausted ==
  /\ pc = "building"
  /\ Len(stack) >= MaxFrames
  /\ \/ Top.at = "entry" /\ IsGeneral(Top)
     \/ Top.at = "first"
  /\ pc' = "crashed"
  /\ UNCHANGED <<input, freqs, total, tsize, ptable, codes, stack, artifact, rpos, accum, output>>

\* ------------------------------------------------------- Encode: the artifact
\* printf "%i" of a non-negative int: its decimal digits.
RECURSIVE FormatInt(_)
FormatInt(n) ==
  IF n < 10 THEN <<CharZero + n>>
  ELSE Append(FormatInt(n \div 10), CharZero + (n % 10))

\* The float p in millionths, rounded to nearest (ties to even) as printf does:
\* p * 10^6 / 2^30 = p * 5^6 / 2^24, taken in two halves of p to stay in 32 bits.
Millionths(p) ==
  LET a  == (p \div Pow2(16)) * 15625
      b  == (p % Pow2(16)) * 15625
      s  == a + (b \div Pow2(16))
      q  == s \div Pow2(8)
      r  == (s % Pow2(8)) * Pow2(16) + (b % Pow2(16))
  IN  RoundTo(q, 1, r, Pow2(24))

\* The last k decimal digits of n, with leading zeros.
RECURSIVE FixedDigits(_, _)
FixedDigits(n, k) ==
  IF k = 0 THEN <<>>
  ELSE Append(FixedDigits(n \div 10, k - 1), CharZero + (n % 10))

\* printf "%f"
FormatFloat(p) ==
  LET m == Millionths(p)
  IN  FormatInt(m \div 1000000) \o <<CharDot>> \o FixedDigits(m % 1000000, 6)

\* fprintf(outputFile, "%c\t%f\t%s" NL, ptable[i].ch, ptable[i].p, codes[ptable[i].ch].c_str())
RECURSIVE FormatRows(_, _)
FormatRows(pt, cds) ==
  IF pt = <<>> THEN <<>>
  ELSE <<Head(pt).ch, CharTab>> \o FormatFloat(Head(pt).p) \o <<CharTab>>
         \o MapGet(cds, Head(pt).ch, <<>>) \o <<CharNL>> \o FormatRows(Tail(pt), cds)

\* while( fscanf( inputFile, "%c", &ch ) != EOF ) fprintf(outputFile, "%s", codes[ch].c_str());
RECURSIVE EncodeText(_, _)
EncodeText(s, cds) ==
  IF s = <<>> THEN <<>>
  ELSE MapGet(cds, Head(s), <<>>) \o EncodeText(Tail(s), cds)

\* Lines 91-127: the header, the table, an empty line, the encoded text; codes.clear().
WriteArtifact ==
  /\ pc = "built"
  /\ artifact' = FormatInt(tsize) \o <<CharNL>> \o FormatRows(ptable, codes)
                   \o <<CharNL>> \o EncodeText(input, codes)
  /\ codes' = EmptyMap
  /\ pc' = "encoded"
  /\ UNCHANGED <<input, freqs, total, tsize, ptable, stack, rpos, accum, output>>

\* ------------------------------------------------------- Decode: the table
CharEOF == 0 - 1

\* The classes of characters fscanf tells apart: isspace, the digits, the
\* characters "%f" reads in a number without sign or exponent, and the rest.
Spaces == {CharTab, CharNL, 11, 12, 13, 32}
Digits == CharZero .. (CharZero + 9)
FloatChars == Digits \cup {CharDot}
NonSpaces == (0 .. 255) \ Spaces

\* The position after the longest run, from pos on, of characters of the class.
RECURSIVE SkipWhile(_, _, _)
SkipWhile(f, pos, class) ==
  IF pos < Len(f) /\ f[pos + 1] \in class THEN SkipWhile(f, pos + 1, class) ELSE pos

SkipSpace(f, pos) == SkipWhile(f, pos, Spaces)

\* The value of a run of decimal digits.
RECURSIVE DigitsValue(_)
DigitsValue(ds) ==
  IF ds = <<>> THEN 0
  ELSE 10 * DigitsValue(SubSeq(ds, 1, Len(ds) - 1)) + (ds[Len(ds)] - CharZero)

\* fgetc: the character read (EOF at the end of the file) and the position after it.
fgetc(f, pos) ==
  IF pos < Len(f) THEN [ch |-> f[pos + 1], pos |-> pos + 1]
  ELSE [ch |-> CharEOF, pos |-> pos]

\* fscanf( inputFile, "%i", &tsize ) on the decimal number the artifact starts with;
\* n is what tsize held before, and holds again if no number is there.
ScanInt(f, pos, n) ==
  LET from == SkipSpace(f, pos)
      to   == SkipWhile(f, from, Digits)
  IN  IF to = from THEN [val |-> n, pos |-> from]
      ELSE [val |-> DigitsValue(SubSeq(f, from + 1, to)), pos |-> to]

\* fscanf( inputFile, "%f %s", &p, code ): code is the buffer before the call; the
\* conversion %s fails at the end of the file and leaves the buffer as it was,
\* and is not attempted when %f finds no number.
ScanRow(f, pos, code) ==
  LET numFrom == SkipSpace(f, pos)
      numTo   == SkipWhile(f, numFrom, FloatChars)
      strFrom == SkipSpace(f, numTo)
      strTo   == SkipWhile(f, strFrom, NonSpaces)
  IN  IF numTo = numFrom THEN [code |-> code, pos |-> numFrom]
      ELSE IF strTo = strFrom THEN [code |-> code, pos |-> strFrom]
      ELSE [code |-> SubSeq(f, strFrom + 1, strTo), pos |-> strTo]

\* for( i=0; i<tsize; i++ ) { ch = fgetc; fscanf "%f %s"; codes[ch] = code; fgetc; }
RECURSIVE LoadRows(_, _, _, _, _)
LoadRows(f, pos, n, code, cds) ==
  IF n <= 0 THEN [codes |-> cds, pos |-> pos]
  ELSE LET c   == fgetc(f, pos)
           row == ScanRow(f, c.pos, code)
       IN  LoadRows(f, fgetc(f, row.pos).pos, n - 1, row.code, MapPut(cds, c.ch, row.code))

\* What the uninitialised buffer char code[128] may hold when it is read as a string.
GarbageCodes == {<<>>, <<CharZero>>, <<CharOne>>, <<SymBase, CharOne>>}

\* Lines 138-152, in a new process (a new Coder: codes is empty).
LoadCodes ==
  /\ pc = "encoded"
  /\ \E garbage \in GarbageCodes :
       LET n    == ScanInt(artifact, 0, tsize)
           rows == LoadRows(artifact, fgetc(artifact, n.pos).pos, n.val, garbage, EmptyMap)
       IN  /\ tsize' = n.val
           /\ codes' = rows.codes
           /\ rpos' = fgetc(artifact, rows.pos).pos
  /\ accum' = <<>>
  /\ pc' = "decoding"
  /\ UNCHANGED <<input, freqs, total, ptable, stack, artifact, output>>

\* ------------------------------------------------------- Decode: the text
\* A comparison of only the characters accumulated so far (strncmp).
MatchesPrefix(code, acc) == Len(acc) <= Len(code) /\ SubSeq(code, 1, Len(acc)) = acc

\* The codeword comparison: !strcmp( (*ci).second.c_str(), accum.c_str() )
Matches(code, acc) == code = acc

\* for( ci=codes.begin(); ci!=codes.end(); ++ci ) if( match ) { accum = ""; print first; }
RECURSIVE MatchLoop(_, _, _, _)
MatchLoop(keys, cds, acc, out) ==
  IF keys = <<>> THEN [accum |-> acc, output |-> out]
  ELSE IF Matches(cds[Head(keys)], acc)
       THEN MatchLoop(Tail(keys), cds, <<>>, Append(out, Head(keys)))
       ELSE MatchLoop(Tail(keys), cds, acc, out)

\* One iteration of while((ch = fgetc(inputFile)) != EOF).
DecodeBit ==
  /\ pc = "decoding"
  /\ fgetc(artifact, rpos).ch # CharEOF
  /\ LET m == MatchLoop(KeysAscending(DOMAIN codes), codes,
                        Append(accum, fgetc(artifact, rpos).ch), output)
     IN  /\ accum' = m.accum
         /\ output' = m.output
  /\ rpos' = fgetc(artifact, rpos).pos
  /\ UNCHANGED <<input, pc, freqs, total, tsize, ptable, codes, stack, artifact>>

\* fgetc returns EOF: the loop ends and Decode returns.
DecodeEnd ==
  /\ pc = "decoding"
  /\ fgetc(artifact, rpos).ch = CharEOF
  /\ pc' = "decoded"
  /\ UNCHANGED <<input, freqs, total, tsize, ptable, codes, stack, artifact, rpos, accum, output>>

\* ------------------------------------------------------------ specifications
\* All byte sequences of length n over the set syms.
RECURSIVE SeqsOfLen(_, _)
SeqsOfLen(syms, n) ==
  IF n = 0 THEN {<<>>}
  ELSE { Append(s, c) : s \in SeqsOfLen(syms, n - 1), c \in syms }

Inputs == UNION { SeqsOfLen(Symbols, n) : n \in 0 .. MaxLen }

\* The file that holds cnts[1] times the byte c, then cnts[2] times c + 1, ...
RECURSIVE RunFile(_, _)
RunFile(cnts, c) ==
  IF cnts = <<>> THEN <<>>
  ELSE [i \in 1 .. Head(cnts) |-> c] \o RunFile(Tail(cnts), c + 1)

\* Files of runs in which no two bytes occur equally often (the sorted table of
\* such a file is unique), the rarest byte first.
RunInputs ==
  { RunFile(KeysAscending(cs), SymBase) :
      cs \in { x \in SUBSET (1 .. MaxCount) : Cardinality(x) <= RunSyms } }

InitWith(files) ==
  /\ input \in files
  /\ pc = "start"
  /\ freqs = EmptyMap
  /\ total = 0
  /\ tsize = 0
  /\ ptable = <<>>
  /\ codes = EmptyMap
  /\ stack = <<>>
  /\ artifact = <<>>
  /\ rpos = 0
  /\ accum = <<>>
  /\ output = <<>>

Init == InitWith(Inputs)
InitRuns == InitWith(RunInputs)

NextTree ==
  \/ Count
  \/ BuildTable
  \/ EncShannonBase
  \/ EncShannonSplit
  \/ EncShannonSecond
  \/ EncShannonReturn
  \/ StackExhausted

Next ==
  \/ Count
  \/ BuildTable
  \/ EncShannonBase
  \/ EncShannonSplit
  \/ EncShannonSecond
  \/ EncShannonReturn
  \/ StackExhausted
  \/ WriteArtifact
  \/ LoadCodes
  \/ DecodeBit
  \/ DecodeEnd

\* Encode of a file, then Decode of the artifact it wrote.
Spec == Init /\ [][Next]_vars

\* Encode up to the return of EncShannon, on files made of runs.
SpecRuns == InitRuns /\ [][NextTree]_vars

\* ------------------------------------------------------------------ claims
Rows == 1 .. Len(ptable)

\* The codeword of the symbol of row i of the table.
CodeOfRow(i) == MapGet(codes, ptable[i].ch, <<>>)

\* The number of occurrences of the symbol of row i in the input.
CountOfRow(i) == freqs[ptable[i].ch]

IsPrefix(a, b) == Len(a) <= Len(b) /\ SubSeq(b, 1, Len(a)) = a

\* At the first place where a and b differ, a has '0' and b has '1'.
ZeroSideOf(a, b) ==
  \E k \in 1 .. Len(a) :
    /\ k <= Len(b)
    /\ SubSeq(a, 1, k - 1) = SubSeq(b, 1, k - 1)
    /\ a[k] = CharZero
    /\ b[k] = CharOne

\* The length of the longest codeword of a table (0 for an empty table).
LongestCode(cds) ==
  IF DOMAIN cds = {} THEN 0
  ELSE LET c == CHOOSE x \in DOMAIN cds : \A y \in DOMAIN cds : Len(cds[x]) >= Len(cds[y])
       IN  Len(cds[c])

\* The least k with 2^k >= n.
RECURSIVE CeilLog2(_)
CeilLog2(n) == IF n <= 1 THEN 0 ELSE 1 + CeilLog2((n + 1) \div 2)

\* C1: for every non-empty input S, Decode of the artifact Encode wrote for S
\* writes exactly S.
C1_RoundTrip == (pc = "decoded" /\ input # <<>>) => output = input

\* C2: after EncShannon(0, tsize-1) has returned on a table of at least 2 symbols,
\* no codeword is a prefix of, or equal to, the codeword of another symbol.
C2_PrefixFree ==
  (pc = "built" /\ tsize >= 2) =>
    \A i \in Rows : \A j \in Rows : i # j => ~IsPrefix(CodeOfRow(i), CodeOfRow(j))

C2_Witness ==
  /\ pc = "built"
  /\ tsize >= 3
  /\ \E i \in Rows : \E j \in Rows : Len(CodeOfRow(i)) < Len(CodeOfRow(j))

\* C3: once Encode has built the code table, every symbol of the alphabet has a
\* codeword of at least one bit, also when the alphabet has a single symbol.
C3_NonEmptyCodewords == pc = "built" => \A i \in Rows : Len(CodeOfRow(i)) >= 1

\* C4 as stated: in the table Encode built, a symbol that occurs strictly more
\* often than another has a codeword that is not longer.
C4_ShorterForFrequent ==
  pc = "built" =>
    \A i \in Rows : \A j \in Rows :
      CountOfRow(i) > CountOfRow(j) => Len(CodeOfRow(i)) <= Len(CodeOfRow(j))

\* C4 as amended: in the table Encode built, a symbol whose probability is
\* strictly larger than another's stands in an earlier row, and at the first
\* bit where the two codewords differ it has '0' and the other has '1'.
C4_ZeroSideForFrequent ==
  pc = "built" =>
    \A i \in Rows : \A j \in Rows :
      ptable[i].p > ptable[j].p => (i < j /\ ZeroSideOf(CodeOfRow(i), CodeOfRow(j)))

\* A table in which a more frequent symbol has the longer codeword.
C4_Witness ==
  /\ pc = "built"
  /\ \E i \in Rows : \E j \in Rows :
       ptable[i].p > ptable[j].p /\ Len(CodeOfRow(i)) > Len(CodeOfRow(j))

\* C5: for every non-empty input the construction EncShannon(0, tsize-1) returns:
\* its chain of live calls stays finite, so it is never ended by the stack.
C5_Terminates == input # <<>> => pc # "crashed"

\* C6: on an input of zero symbols Encode stops after counting: it makes no call
\* of EncShannon and writes no artifact.
C6_EmptyInputRejected ==
  input = <<>> => (pc \in {"start", "counted"} /\ stack = <<>> /\ artifact = <<>>)

\* C7: each time Decode has appended a bit of a bitstream Encode wrote, at most
\* one codeword of the table matches the accumulator, and the accumulator is not
\* longer than the longest codeword.
C7_DecoderMatching ==
  [][(pc = "decoding" /\ rpos' = rpos + 1) =>
       LET acc == Append(accum, artifact[rpos + 1])
       IN  /\ Cardinality({c \in DOMAIN codes : Matches(codes[c], acc)}) <= 1
           /\ Len(acc) <= LongestCode(codes)]_vars

C7_Witness == pc = "decoding" /\ Len(accum) >= 2 /\ Len(output) >= 1

\* C8: every call of EncShannon is on a range with lo <= hi, and the split of a
\* general-case call (3 or more elements) satisfies lo < split <= hi.
C8_NonEmptyPartitions ==
  input # <<>> =>
    \A k \in 1 .. Len(stack) :
      /\ stack[k].li <= stack[k].ri
      /\ (stack[k].at # "entry" /\ stack[k].ri - stack[k].li >= 2) =>
           (stack[k].li < stack[k].isp /\ stack[k].isp <= stack[k].ri)

\* C9: for a table of n >= 2 symbols, the longest codeword EncShannon(0, n-1)
\* built has at least ceil(log2(n)) and at most n-1 bits.
C9_DepthBounds ==
  (pc = "built" /\ tsize >= 2) =>
    /\ LongestCode(codes) >= CeilLog2(tsize)
    /\ LongestCode(codes) <= tsize - 1

C9_Witness == pc = "built" /\ tsize >= 4 /\ LongestCode(codes) = tsize - 1

\* C10: a call EncShannon(lo, hi) on 2 or more elements appends, before its
\* nested calls, one bit to the codeword of each element of [lo, hi] and to no
\* other codeword: '0' to the elements of [lo, split-1], '1' to those of [split, hi].
C10_BitsAgreeWithPartition ==
  [][(pc = "building" /\ Top.at = "entry" /\ Top.ri - Top.li >= 1 /\ pc' # "crashed") =>
       LET split == IF Top.ri - Top.li = 1 THEN Top.ri ELSE stack'[Len(stack)].isp
       IN  \A i \in Rows :
             MapGet(codes', ptable[i].ch, <<>>) =
               IF i - 1 < Top.li \/ i - 1 > Top.ri THEN CodeOfRow(i)
               ELSE IF i - 1 < split THEN Append(CodeOfRow(i), CharZero)
               ELSE Append(CodeOfRow(i), CharOne)]_vars

C10_Witness ==
  /\ pc = "building"
  /\ \E k \in 1 .. Len(stack) :
       /\ stack[k].at = "first"
       /\ stack[k].isp - stack[k].li >= 2
       /\ stack[k].ri - stack[k].isp >= 1

====
